---- MODULE Spec2Model ----
(***************************************************************************)
(* CookieSessionStore (src/session/cookie-store/index.ts): the session     *)
(* read / refresh / write protocol over a sealed client-held cookie.       *)
(*                                                                         *)
(* A JavaScript object is a function from the names of its defined         *)
(* properties to their values; a property that is undefined is not in the  *)
(* DOMAIN.  Every await of the source is a suspension point: one action    *)
(* runs the code from one await to the next.                               *)
(***************************************************************************)
EXTENDS Integers, Sequences, FiniteSets, TLC

VARIABLES
    settings,    \* this.settings: the three store flags (immutable)
    now,         \* Date.now(), milliseconds
    jar,         \* per client: the cookie value the client holds
    calls,       \* per client: invocations started so far
    prev,        \* per client: the previous invocation: its entry point, the
                 \* session it was given, its outcome; and whether the cookie
                 \* the client holds was set by this store
    pc,          \* per invocation: position in read / save
    op,          \* per invocation: "read" or "save", the entry point called
    req,         \* per invocation: the request handle
    res,         \* per invocation: the response handle
    input,       \* per invocation: the session handed to save
    unsealed,    \* per invocation: what Iron.unseal resolved to
    checkedAt,   \* per invocation: Date.now() values read by line 54
    tokenSet,    \* per invocation: what client.refresh resolved to
    persisted,   \* per invocation: persistedSession of save
    result,      \* per invocation: what the entry point returned or threw
    trace        \* per invocation: collaborator calls made, in order

vars == <<settings, now, jar, calls, prev, pc, op, req, res, input, unsealed,
          checkedAt, tokenSet, persisted, result, trace>>

(***************************************************************************)
(* Bounds                                                                  *)
(***************************************************************************)
MaxTicks == 1
MaxCalls == 2

Procs == {"p1", "p2"}

(***************************************************************************)
(* Program constants                                                       *)
(***************************************************************************)
MsPerSec == 1000
SkewMs == 60000

CookieSecret == "secret"
OtherSecret == "other-secret"
CookieName == "a0:session"
CookieAttrs == [path |-> "/", maxAge |-> "8h", domain |-> "example.com", sameSite |-> "lax"]

AllSettings ==
    [storeIdToken : BOOLEAN, storeAccessToken : BOOLEAN, storeRefreshToken : BOOLEAN]

(***************************************************************************)
(* The clock and the expiry instants the model uses                        *)
(***************************************************************************)
StartMs == 100 * MsPerSec
StartSec == StartMs \div MsPerSec
ClockValues == StartMs .. (StartMs + MaxTicks)

\* now - 1 s, now + 30 s, now + 60 s (the skew boundary), now + 90 s, and 0
ExpiresAtValues == {0, StartSec - 1, StartSec + 30, StartSec + 60, StartSec + 90}

(***************************************************************************)
(* Objects                                                                 *)
(***************************************************************************)
StrFields == {"idToken", "accessToken", "refreshToken"}
EmptyObj == [f \in {} |-> ""]

Has(o, f) == f \in DOMAIN o

\* o with property f set to v
Put(o, f, v) == [g \in (DOMAIN o) \cup {f} |-> IF g = f THEN v ELSE o[g]]

\* JavaScript truthiness of a string-valued and of a number-valued property
TruthyStr(o, f) == Has(o, f) /\ o[f] # ""
TruthyNum(o, f) == Has(o, f) /\ o[f] # 0

\* an object with the given optional properties
Obj(base, ids, ats, rts, exs) ==
    LET o1 == IF ids = <<>> THEN base ELSE Put(base, "idToken", ids[1])
        o2 == IF ats = <<>> THEN o1 ELSE Put(o1, "accessToken", ats[1])
        o3 == IF rts = <<>> THEN o2 ELSE Put(o2, "refreshToken", rts[1])
    IN  IF exs = <<>> THEN o3 ELSE Put(o3, "expiresAt", exs[1])

Opt(S) == {<<>>} \cup {<<v>> : v \in S}

\* the sessions a caller hands to save
LiveSessions ==
    { Obj([user |-> "u1", createdAt |-> 1], i, a, r, e) :
        i \in Opt({"", "id1"}), a \in Opt({"at1"}),
        r \in Opt({"", "rt1"}), e \in Opt(ExpiresAtValues) }

\* the token sets client.refresh can resolve to
TokenSets ==
    { [claims |-> "u2", id_token |-> i, access_token |-> a, refresh_token |-> r, expires_at |-> e] :
        i \in Opt({"id2"}), a \in {<<"at2">>}, r \in Opt({"rt2"}),
        e \in Opt({StartSec + 90}) }

(***************************************************************************)
(* Session (session/session.ts) and getSessionFromTokenSet                 *)
(* (utils/session.ts)                                                      *)
(***************************************************************************)
Session(user, createdAt) == [user |-> user, createdAt |-> createdAt]

getSessionFromTokenSet(ts, t) ==
    Obj([user |-> ts.claims, createdAt |-> t],
        ts.id_token, ts.access_token, ts.refresh_token, ts.expires_at)

(***************************************************************************)
(* Sealed cookie codec (Iron.seal / Iron.unseal)                           *)
(***************************************************************************)
FieldOrder == <<"user", "createdAt", "idToken", "accessToken", "refreshToken", "expiresAt">>

IndexOf(f) == CHOOSE i \in 1..Len(FieldOrder) : FieldOrder[i] = f

\* JSON text of an object: its defined properties, by position
Encode(o) ==
    [i \in {IndexOf(f) : f \in DOMAIN o} |-> o[FieldOrder[i]]]

Decode(body) ==
    [f \in {FieldOrder[i] : i \in DOMAIN body} |-> body[IndexOf(f)]]

\* the authentication tag the codec appends: it binds the body to the secret
Mac(secret, body) == <<secret, body>>

\* cookie values: kind "none" (no such cookie), "empty", "garbage", "sealed"
NoCookie == [kind |-> "none"]
EmptyCookie == [kind |-> "empty"]
GarbageCookie == [kind |-> "garbage"]

SealJson(json, secret) ==
    [kind |-> "sealed", body |-> json, mac |-> Mac(secret, json)]

\* Iron.seal of an object
Seal(o, secret) ==
    SealJson([isNull |-> FALSE, props |-> Encode(o)], secret)

\* Iron.seal of null
SealNull(secret) ==
    SealJson([isNull |-> TRUE, props |-> Encode(EmptyObj)], secret)

\* one character of a sealed value changed
Tamper(c) == [c EXCEPT !.body.isNull = ~@]

\* Iron.unseal rejects a value that is not sealed, or whose tag does not
\* match the body under the secret
UnsealOk(c, secret) ==
    /\ c.kind = "sealed"
    /\ c.mac = Mac(secret, c.body)

\* the value Iron.unseal resolves to: null or an object
NullValue == [isNull |-> TRUE, obj |-> EmptyObj]

Unseal(c) ==
    IF c.body.isNull THEN NullValue
    ELSE [isNull |-> FALSE, obj |-> Decode(c.body.props)]

(***************************************************************************)
(* Cookie transport (utils/cookies.ts)                                     *)
(***************************************************************************)
\* the mapping of cookie names to raw values
parseCookies(rq) ==
    IF rq.cookie.kind = "none" THEN [n \in {} |-> NoCookie]
    ELSE [n \in {CookieName} |-> rq.cookie]

\* writes / overwrites the response cookie of that name
setCookie(rs, c) ==
    [rs EXCEPT !.cookies = SelectSeq(@, LAMBDA d : d.name # c.name) \o <<c>>]

(***************************************************************************)
(* CookieSessionStore.save, lines 88-108: the persisted session            *)
(***************************************************************************)
\* a filter that copies the refresh token whatever its flag says
PersistedSession_RefreshUnfiltered(session, st) ==
    LET p0 == Session(session.user, session.createdAt)
        p1 == IF st.storeIdToken /\ TruthyStr(session, "idToken")
              THEN Put(p0, "idToken", session.idToken) ELSE p0
        p2 == IF st.storeAccessToken /\ TruthyStr(session, "accessToken")
              THEN Put(p1, "accessToken", session.accessToken) ELSE p1
        p3 == IF TruthyStr(session, "refreshToken")
              THEN Put(p2, "refreshToken", session.refreshToken) ELSE p2
    IN  IF /\ (st.storeIdToken \/ st.storeAccessToken \/ st.storeRefreshToken)
           /\ TruthyNum(session, "expiresAt")
        THEN Put(p3, "expiresAt", session.expiresAt) ELSE p3

\* a filter that tests the access token where it means the refresh token
PersistedSession_WrongGuard(session, st) ==
    LET p0 == Session(session.user, session.createdAt)
        p1 == IF st.storeIdToken /\ TruthyStr(session, "idToken")
              THEN Put(p0, "idToken", session.idToken) ELSE p0
        p2 == IF st.storeAccessToken /\ TruthyStr(session, "accessToken")
              THEN Put(p1, "accessToken", session.accessToken) ELSE p1
        p3 == IF /\ st.storeRefreshToken /\ TruthyStr(session, "accessToken")
                 /\ Has(session, "refreshToken")
              THEN Put(p2, "refreshToken", session.refreshToken) ELSE p2
    IN  IF /\ (st.storeIdToken \/ st.storeAccessToken \/ st.storeRefreshToken)
           /\ TruthyNum(session, "expiresAt")
        THEN Put(p3, "expiresAt", session.expiresAt) ELSE p3

\* a filter that copies the access token whatever its flag says
PersistedSession_AccessUnfiltered(session, st) ==
    LET p0 == Session(session.user, session.createdAt)
        p1 == IF st.storeIdToken /\ TruthyStr(session, "idToken")
              THEN Put(p0, "idToken", session.idToken) ELSE p0
        p2 == IF TruthyStr(session, "accessToken")
              THEN Put(p1, "accessToken", session.accessToken) ELSE p1
        p3 == IF st.storeRefreshToken /\ TruthyStr(session, "refreshToken")
              THEN Put(p2, "refreshToken", session.refreshToken) ELSE p2
    IN  IF /\ (st.storeIdToken \/ st.storeAccessToken \/ st.storeRefreshToken)
           /\ TruthyNum(session, "expiresAt")
        THEN Put(p3, "expiresAt", session.expiresAt) ELSE p3

PersistedSession(session, st) ==
    LET p0 == Session(session.user, session.createdAt)
        p1 == IF st.storeIdToken /\ TruthyStr(session, "idToken")
              THEN Put(p0, "idToken", session.idToken) ELSE p0
        p2 == IF st.storeAccessToken /\ TruthyStr(session, "accessToken")
              THEN Put(p1, "accessToken", session.accessToken) ELSE p1
        p3 == IF st.storeRefreshToken /\ TruthyStr(session, "refreshToken")
              THEN Put(p2, "refreshToken", session.refreshToken) ELSE p2
    IN  IF /\ (st.storeIdToken \/ st.storeAccessToken \/ st.storeRefreshToken)
           /\ TruthyNum(session, "expiresAt")
        THEN Put(p3, "expiresAt", session.expiresAt) ELSE p3

\* a cookie whose domain is taken from the path setting
SessionCookie_DomainFromPath(value) ==
    [name |-> CookieName, value |-> value, path |-> CookieAttrs.path,
     maxAge |-> CookieAttrs.maxAge, domain |-> CookieAttrs.path,
     sameSite |-> CookieAttrs.sameSite]

\* lines 111-118: the cookie save writes
SessionCookie(value) ==
    [name |-> CookieName, value |-> value, path |-> CookieAttrs.path,
     maxAge |-> CookieAttrs.maxAge, domain |-> CookieAttrs.domain,
     sameSite |-> CookieAttrs.sameSite]

(***************************************************************************)
(* CookieSessionStore.read, line 39, line 54 and lines 61-64               *)
(***************************************************************************)
\* a test that lets an empty cookie value through to the codec
CookieMissing_EmptyUnchecked(cookies) ==
    ~Has(cookies, CookieName)

CookieMissing(cookies) ==
    \/ ~Has(cookies, CookieName)
    \/ cookies[CookieName].kind = "empty"

\* a test that refreshes on expiry alone, refresh token or not
NeedsRefresh_ExpiryOnly(o, t) ==
    /\ TruthyNum(o, "expiresAt")
    /\ o.expiresAt * MsPerSec - SkewMs < t

\* a test that compares the expiry in seconds with the clock in milliseconds
NeedsRefresh_Seconds(o, t) ==
    /\ TruthyStr(o, "refreshToken")
    /\ TruthyNum(o, "expiresAt")
    /\ o.expiresAt - SkewMs < t

\* a test that takes the boundary instant itself as stale
NeedsRefresh_Inclusive(o, t) ==
    /\ TruthyStr(o, "refreshToken")
    /\ TruthyNum(o, "expiresAt")
    /\ o.expiresAt * MsPerSec - SkewMs <= t

NeedsRefresh(o, t) ==
    /\ TruthyStr(o, "refreshToken")
    /\ TruthyNum(o, "expiresAt")
    /\ o.expiresAt * MsPerSec - SkewMs < t

\* a new session that keeps whatever refresh token the token set carries
RefreshedSession_Rotating(ts, refreshToken, t) ==
    getSessionFromTokenSet(ts, t)

RefreshedSession(ts, refreshToken, t) ==
    Put(getSessionFromTokenSet(ts, t), "refreshToken", refreshToken)

(***************************************************************************)
(* Inbound cookies: nothing, an empty value, a value that does not unseal  *)
(* (garbage, tampered, sealed under another secret), a sealed null, or a   *)
(* record save persisted under some configuration of the flags.            *)
(***************************************************************************)
PersistedShapes ==
    { PersistedSession(s, st) : s \in LiveSessions, st \in AllSettings }

InboundCookies ==
    {NoCookie, EmptyCookie, GarbageCookie, SealNull(CookieSecret)}
    \cup { Seal(o, CookieSecret) : o \in PersistedShapes }
    \cup { Tamper(Seal(o, CookieSecret)) : o \in {Session("u1", 1)} }
    \cup { Seal(o, OtherSecret) : o \in {Session("u1", 1)} }

(***************************************************************************)
(* Handles and outcomes                                                    *)
(***************************************************************************)
NoRequest == [ok |-> FALSE, cookie |-> NoCookie]
NoResponse == [ok |-> FALSE, cookies |-> <<>>]
Request(c) == [ok |-> TRUE, cookie |-> c]
FreshResponse == [ok |-> TRUE, cookies |-> <<>>]

NoResult == [kind |-> "none", session |-> EmptyObj, error |-> ""]
Absent == [kind |-> "absent", session |-> EmptyObj, error |-> ""]
Returned(s) == [kind |-> "session", session |-> s, error |-> ""]
Thrown(e) == [kind |-> "error", session |-> EmptyObj, error |-> e]

NoTokenSet == [claims |-> "", id_token |-> <<>>, access_token |-> <<>>,
               refresh_token |-> <<>>, expires_at |-> <<>>]

\* how often a collaborator call, or its rejection, occurs in a trace
Count(tr, name) == Cardinality({i \in 1..Len(tr) : tr[i] = name})

Locals == <<input, unsealed, checkedAt, tokenSet, persisted>>
Client == <<jar, calls, prev>>

(***************************************************************************)
(* Init                                                                    *)
(***************************************************************************)
InitFor(active) ==
    /\ settings \in AllSettings
    /\ now = StartMs
    /\ jar \in [Procs -> InboundCookies]
    /\ \A p \in Procs \ active : jar[p] = NoCookie
    /\ calls = [p \in Procs |-> 0]
    /\ prev = [p \in Procs |-> [op |-> "none", input |-> EmptyObj, result |-> NoResult, wrote |-> FALSE]]
    /\ pc = [p \in Procs |-> IF p \in active THEN "idle" ELSE "off"]
    /\ op = [p \in Procs |-> "none"]
    /\ req = [p \in Procs |-> NoRequest]
    /\ res = [p \in Procs |-> NoResponse]
    /\ input = [p \in Procs |-> EmptyObj]
    /\ unsealed = [p \in Procs |-> NullValue]
    /\ checkedAt = [p \in Procs |-> <<>>]
    /\ tokenSet = [p \in Procs |-> NoTokenSet]
    /\ persisted = [p \in Procs |-> EmptyObj]
    /\ result = [p \in Procs |-> NoResult]
    /\ trace = [p \in Procs |-> <<>>]

Init == InitFor({"p1"})

(***************************************************************************)
(* save, lines 77-110: from entry to the await of Iron.seal                *)
(***************************************************************************)
\* a save that does not test the request handle
SaveEnter_RequestUnchecked(p, rq, rs, session, tr) ==
    IF ~rs.ok THEN
        /\ result' = [result EXCEPT ![p] = Thrown("Response is not available")]
        /\ pc' = [pc EXCEPT ![p] = "done"]
        /\ trace' = [trace EXCEPT ![p] = tr]
        /\ UNCHANGED <<input, persisted>>
    ELSE
        /\ input' = [input EXCEPT ![p] = session]
        /\ persisted' = [persisted EXCEPT ![p] = PersistedSession(session, settings)]
        /\ trace' = [trace EXCEPT ![p] = Append(tr, "seal")]
        /\ pc' = [pc EXCEPT ![p] = "save_seal"]
        /\ UNCHANGED result

SaveEnter(p, rq, rs, session, tr) ==
    IF ~rs.ok THEN
        /\ result' = [result EXCEPT ![p] = Thrown("Response is not available")]
        /\ pc' = [pc EXCEPT ![p] = "done"]
        /\ trace' = [trace EXCEPT ![p] = tr]
        /\ UNCHANGED <<input, persisted>>
    ELSE IF ~rq.ok THEN
        /\ result' = [result EXCEPT ![p] = Thrown("Request is not available")]
        /\ pc' = [pc EXCEPT ![p] = "done"]
        /\ trace' = [trace EXCEPT ![p] = tr]
        /\ UNCHANGED <<input, persisted>>
    ELSE
        /\ input' = [input EXCEPT ![p] = session]
        /\ persisted' = [persisted EXCEPT ![p] = PersistedSession(session, settings)]
        /\ trace' = [trace EXCEPT ![p] = Append(tr, "seal")]
        /\ pc' = [pc EXCEPT ![p] = "save_seal"]
        /\ UNCHANGED result

\* the sessions a caller saves: any live session, or on a later request the
\* session the previous request returned
SaveInputs(p) ==
    IF calls[p] = 0 THEN LiveSessions
    ELSE IF prev[p].result.kind = "session" THEN {prev[p].result.session}
    ELSE {}

SaveStart(p) ==
    /\ pc[p] = "idle"
    /\ \E rqOk \in BOOLEAN, rsOk \in BOOLEAN, session \in SaveInputs(p) :
        LET rq == IF rqOk THEN Request(jar[p]) ELSE NoRequest
            rs == IF rsOk THEN FreshResponse ELSE NoResponse
        IN  /\ op' = [op EXCEPT ![p] = "save"]
            /\ req' = [req EXCEPT ![p] = rq]
            /\ res' = [res EXCEPT ![p] = rs]
            /\ SaveEnter(p, rq, rs, session, <<>>)
    /\ calls' = [calls EXCEPT ![p] = @ + 1]
    /\ UNCHANGED <<settings, now, jar, prev, unsealed, checkedAt, tokenSet>>

\* a save that clears the session cookie when sealing fails
SealRejects_ClearingCookie(p) ==
    /\ pc[p] = "save_seal"
    /\ result' = [result EXCEPT ![p] = Thrown("seal_error")]
    /\ trace' = [trace EXCEPT ![p] = Append(@, "seal:rejected")]
    /\ res' = [res EXCEPT ![p] = setCookie(@, SessionCookie(EmptyCookie))]
    /\ pc' = [pc EXCEPT ![p] = "done"]
    /\ UNCHANGED <<settings, now, Client, op, req, Locals>>

\* line 110: Iron.seal rejects; save rejects with it
SealRejects(p) ==
    /\ pc[p] = "save_seal"
    /\ result' = [result EXCEPT ![p] = Thrown("seal_error")]
    /\ trace' = [trace EXCEPT ![p] = Append(@, "seal:rejected")]
    /\ pc' = [pc EXCEPT ![p] = "done"]
    /\ UNCHANGED <<settings, now, Client, op, req, res, Locals>>

\* a save that returns the session it was given
SealReturn_ReturningInput(p) ==
    /\ pc[p] = "save_seal"
    /\ res' = [res EXCEPT ![p] =
          setCookie(@, SessionCookie(Seal(persisted[p], CookieSecret)))]
    /\ trace' = [trace EXCEPT ![p] = Append(@, "setCookie")]
    /\ result' = [result EXCEPT ![p] = Returned(input[p])]
    /\ pc' = [pc EXCEPT ![p] = "done"]
    /\ UNCHANGED <<settings, now, Client, op, req, Locals>>

\* lines 110-119: Iron.seal resolves; setCookie; return persistedSession
SealReturn(p) ==
    /\ pc[p] = "save_seal"
    /\ res' = [res EXCEPT ![p] =
          setCookie(@, SessionCookie(Seal(persisted[p], CookieSecret)))]
    /\ trace' = [trace EXCEPT ![p] = Append(@, "setCookie")]
    /\ result' = [result EXCEPT ![p] = Returned(persisted[p])]
    /\ pc' = [pc EXCEPT ![p] = "done"]
    /\ UNCHANGED <<settings, now, Client, op, req, Locals>>

(***************************************************************************)
(* read, lines 26-43: from entry to the await of Iron.unseal               *)
(***************************************************************************)
ReadStart(p) ==
    /\ pc[p] = "idle"
    /\ \E rqOk \in BOOLEAN, rsOk \in BOOLEAN :
        LET rq == IF rqOk THEN Request(jar[p]) ELSE NoRequest
            rs == IF rsOk THEN FreshResponse ELSE NoResponse
            cookies == parseCookies(rq)
        IN  /\ op' = [op EXCEPT ![p] = "read"]
            /\ req' = [req EXCEPT ![p] = rq]
            /\ res' = [res EXCEPT ![p] = rs]
            /\ IF ~rs.ok THEN
                   /\ result' = [result EXCEPT ![p] = Thrown("Response is not available")]
                   /\ pc' = [pc EXCEPT ![p] = "done"]
                   /\ UNCHANGED trace
               ELSE IF ~rq.ok THEN
                   /\ result' = [result EXCEPT ![p] = Thrown("Request is not available")]
                   /\ pc' = [pc EXCEPT ![p] = "done"]
                   /\ UNCHANGED trace
               ELSE IF CookieMissing(cookies) THEN
                   /\ result' = [result EXCEPT ![p] = Absent]
                   /\ pc' = [pc EXCEPT ![p] = "done"]
                   /\ trace' = [trace EXCEPT ![p] = <<"parseCookies">>]
               ELSE
                   /\ trace' = [trace EXCEPT ![p] = <<"parseCookies", "unseal">>]
                   /\ pc' = [pc EXCEPT ![p] = "read_unseal"]
                   /\ UNCHANGED result
    /\ calls' = [calls EXCEPT ![p] = @ + 1]
    /\ UNCHANGED <<settings, now, jar, prev, Locals>>

\* a read that downgrades an integrity failure to "no session"
UnsealRejects_Downgrading(p) ==
    /\ pc[p] = "read_unseal"
    /\ ~UnsealOk(parseCookies(req[p])[CookieName], CookieSecret)
    /\ result' = [result EXCEPT ![p] = Absent]
    /\ trace' = [trace EXCEPT ![p] = Append(@, "unseal:rejected")]
    /\ pc' = [pc EXCEPT ![p] = "done"]
    /\ UNCHANGED <<settings, now, Client, op, req, res, Locals>>

\* line 43: Iron.unseal rejects the value; read rejects with it
UnsealRejects(p) ==
    /\ pc[p] = "read_unseal"
    /\ ~UnsealOk(parseCookies(req[p])[CookieName], CookieSecret)
    /\ result' = [result EXCEPT ![p] = Thrown("unseal_error")]
    /\ trace' = [trace EXCEPT ![p] = Append(@, "unseal:rejected")]
    /\ pc' = [pc EXCEPT ![p] = "done"]
    /\ UNCHANGED <<settings, now, Client, op, req, res, Locals>>

\* a read that passes what it returns through the filter of the flags
UnsealReturn_Filtering(p) ==
    /\ pc[p] = "read_unseal"
    /\ UnsealOk(parseCookies(req[p])[CookieName], CookieSecret)
    /\ LET u == Unseal(parseCookies(req[p])[CookieName]) IN
        /\ unsealed' = [unsealed EXCEPT ![p] = u]
        /\ IF u.isNull THEN
               /\ result' = [result EXCEPT ![p] = Absent]
               /\ pc' = [pc EXCEPT ![p] = "done"]
               /\ UNCHANGED <<checkedAt, trace>>
           ELSE IF NeedsRefresh(u.obj, now) THEN
               /\ checkedAt' = [checkedAt EXCEPT ![p] = <<now>>]
               /\ trace' = [trace EXCEPT ![p] = Append(@, "factory")]
               /\ pc' = [pc EXCEPT ![p] = "read_factory"]
               /\ UNCHANGED result
           ELSE
               /\ checkedAt' = [checkedAt EXCEPT ![p] = <<now>>]
               /\ result' = [result EXCEPT ![p] = Returned(PersistedSession(u.obj, settings))]
               /\ pc' = [pc EXCEPT ![p] = "done"]
               /\ UNCHANGED trace
    /\ UNCHANGED <<settings, now, Client, op, req, res, input, tokenSet, persisted>>

\* lines 43-55 and 70: Iron.unseal resolves; the staleness test
UnsealReturn(p) ==
    /\ pc[p] = "read_unseal"
    /\ UnsealOk(parseCookies(req[p])[CookieName], CookieSecret)
    /\ LET u == Unseal(parseCookies(req[p])[CookieName]) IN
        /\ unsealed' = [unsealed EXCEPT ![p] = u]
        /\ IF u.isNull THEN
               /\ result' = [result EXCEPT ![p] = Absent]
               /\ pc' = [pc EXCEPT ![p] = "done"]
               /\ UNCHANGED <<checkedAt, trace>>
           ELSE IF NeedsRefresh(u.obj, now) THEN
               /\ checkedAt' = [checkedAt EXCEPT ![p] = <<now>>]
               /\ trace' = [trace EXCEPT ![p] = Append(@, "factory")]
               /\ pc' = [pc EXCEPT ![p] = "read_factory"]
               /\ UNCHANGED result
           ELSE
               /\ checkedAt' = [checkedAt EXCEPT ![p] = <<now>>]
               /\ result' = [result EXCEPT ![p] = Returned(u.obj)]
               /\ pc' = [pc EXCEPT ![p] = "done"]
               /\ UNCHANGED trace
    /\ UNCHANGED <<settings, now, Client, op, req, res, input, tokenSet, persisted>>

\* line 55: this.clientProvider() rejects; read rejects with it
FactoryRejects(p) ==
    /\ pc[p] = "read_factory"
    /\ result' = [result EXCEPT ![p] = Thrown("factory_error")]
    /\ trace' = [trace EXCEPT ![p] = Append(@, "factory:rejected")]
    /\ pc' = [pc EXCEPT ![p] = "done"]
    /\ UNCHANGED <<settings, now, Client, op, req, res, Locals>>

\* a read that retries the refresh: client.refresh is called twice
FactoryReturn_Retrying(p) ==
    /\ pc[p] = "read_factory"
    /\ trace' = [trace EXCEPT ![p] = Append(Append(@, "refresh"), "refresh")]
    /\ pc' = [pc EXCEPT ![p] = "read_refresh"]
    /\ UNCHANGED <<settings, now, Client, op, req, res, Locals, result>>

\* lines 55-58: this.clientProvider() resolves; client.refresh is called
FactoryReturn(p) ==
    /\ pc[p] = "read_factory"
    /\ trace' = [trace EXCEPT ![p] = Append(@, "refresh")]
    /\ pc' = [pc EXCEPT ![p] = "read_refresh"]
    /\ UNCHANGED <<settings, now, Client, op, req, res, Locals, result>>

\* a read that falls back to the stale session when the refresh fails
RefreshRejects_Fallback(p) ==
    /\ pc[p] = "read_refresh"
    /\ result' = [result EXCEPT ![p] = Returned(unsealed[p].obj)]
    /\ trace' = [trace EXCEPT ![p] = Append(@, "refresh:rejected")]
    /\ pc' = [pc EXCEPT ![p] = "done"]
    /\ UNCHANGED <<settings, now, Client, op, req, res, Locals>>

\* a read that calls client.refresh again when it rejects, up to three times
RefreshRejects_Retrying(p) ==
    /\ pc[p] = "read_refresh"
    /\ IF Count(trace[p], "refresh") < 3 THEN
           /\ trace' = [trace EXCEPT ![p] = Append(Append(@, "refresh:rejected"), "refresh")]
           /\ UNCHANGED <<result, pc>>
       ELSE
           /\ result' = [result EXCEPT ![p] = Thrown("refresh_error")]
           /\ trace' = [trace EXCEPT ![p] = Append(@, "refresh:rejected")]
           /\ pc' = [pc EXCEPT ![p] = "done"]
    /\ UNCHANGED <<settings, now, Client, op, req, res, Locals>>

\* line 58: client.refresh rejects; read rejects with it
RefreshRejects(p) ==
    /\ pc[p] = "read_refresh"
    /\ result' = [result EXCEPT ![p] = Thrown("refresh_error")]
    /\ trace' = [trace EXCEPT ![p] = Append(@, "refresh:rejected")]
    /\ pc' = [pc EXCEPT ![p] = "done"]
    /\ UNCHANGED <<settings, now, Client, op, req, res, Locals>>

\* a read that coalesces refreshes: it reuses the token set another
\* invocation has already obtained
RefreshReturn_Coalescing(p) ==
    /\ pc[p] = "read_refresh"
    /\ \E ts \in TokenSets :
        LET others == {q \in Procs \ {p} : tokenSet[q] # NoTokenSet}
            used == IF others = {} THEN ts ELSE tokenSet[CHOOSE q \in others : TRUE]
        IN  /\ tokenSet' = [tokenSet EXCEPT ![p] = ts]
            /\ SaveEnter(p, req[p], res[p],
                         RefreshedSession(used, unsealed[p].obj.refreshToken, now), trace[p])
    /\ UNCHANGED <<settings, now, Client, op, req, res, unsealed, checkedAt>>

\* lines 58-67: client.refresh resolves; the new session goes to this.save
RefreshReturn(p) ==
    /\ pc[p] = "read_refresh"
    /\ \E ts \in TokenSets :
        /\ tokenSet' = [tokenSet EXCEPT ![p] = ts]
        /\ SaveEnter(p, req[p], res[p],
                     RefreshedSession(ts, unsealed[p].obj.refreshToken, now), trace[p])
    /\ UNCHANGED <<settings, now, Client, op, req, res, unsealed, checkedAt>>

(***************************************************************************)
(* The environment: the clock, and the client's next request               *)
(***************************************************************************)
Tick ==
    /\ now < StartMs + MaxTicks
    /\ now' = now + 1
    /\ UNCHANGED <<settings, Client, pc, op, req, res, Locals, result, trace>>

\* the cookie the client holds after a response
JarAfter(c, rs) ==
    IF \E i \in 1..Len(rs.cookies) : rs.cookies[i].name = CookieName
    THEN rs.cookies[CHOOSE i \in 1..Len(rs.cookies) : rs.cookies[i].name = CookieName].value
    ELSE c

NextRequest(p) ==
    /\ pc[p] = "done"
    /\ calls[p] < MaxCalls
    /\ jar' = [jar EXCEPT ![p] = JarAfter(@, res[p])]
    /\ prev' = [prev EXCEPT ![p] = [op |-> op[p], input |-> input[p], result |-> result[p],
                                    wrote |-> prev[p].wrote \/ res[p].cookies # <<>>]]
    /\ pc' = [pc EXCEPT ![p] = "idle"]
    /\ op' = [op EXCEPT ![p] = "none"]
    /\ req' = [req EXCEPT ![p] = NoRequest]
    /\ res' = [res EXCEPT ![p] = NoResponse]
    /\ input' = [input EXCEPT ![p] = EmptyObj]
    /\ unsealed' = [unsealed EXCEPT ![p] = NullValue]
    /\ checkedAt' = [checkedAt EXCEPT ![p] = <<>>]
    /\ tokenSet' = [tokenSet EXCEPT ![p] = NoTokenSet]
    /\ persisted' = [persisted EXCEPT ![p] = EmptyObj]
    /\ result' = [result EXCEPT ![p] = NoResult]
    /\ trace' = [trace EXCEPT ![p] = <<>>]
    /\ UNCHANGED <<settings, now, calls>>

Next ==
    \/ \E p \in Procs : ReadStart(p)
    \/ \E p \in Procs : UnsealRejects(p)
    \/ \E p \in Procs : UnsealReturn(p)
    \/ \E p \in Procs : FactoryRejects(p)
    \/ \E p \in Procs : FactoryReturn(p)
    \/ \E p \in Procs : RefreshRejects(p)
    \/ \E p \in Procs : RefreshReturn(p)
    \/ \E p \in Procs : SaveStart(p)
    \/ \E p \in Procs : SealRejects(p)
    \/ \E p \in Procs : SealReturn(p)
    \/ \E p \in Procs : NextRequest(p)
    \/ Tick

Spec == Init /\ [][Next]_vars

(***************************************************************************)
(* Two requests bearing the same cookie, read concurrently: every          *)
(* interleaving of the suspension points of the two reads.                 *)
(***************************************************************************)
\* cookies with a refresh token that are stale, or turn stale as time passes
SharedCookies ==
    { Seal(o, CookieSecret) :
        o \in { x \in PersistedShapes :
                  /\ Has(x, "refreshToken") /\ ~Has(x, "accessToken")
                  /\ Has(x, "expiresAt")
                  /\ x.expiresAt \in {StartSec - 1, StartSec + 60} } }

InitConc ==
    /\ InitFor(Procs)
    /\ \E c \in SharedCookies : jar = [p \in Procs |-> c]

NextConc ==
    \/ \E p \in Procs : ReadStart(p)
    \/ \E p \in Procs : UnsealReturn(p)
    \/ \E p \in Procs : FactoryRejects(p)
    \/ \E p \in Procs : FactoryReturn(p)
    \/ \E p \in Procs : RefreshRejects(p)
    \/ \E p \in Procs : RefreshReturn(p)
    \/ \E p \in Procs : SealRejects(p)
    \/ \E p \in Procs : SealReturn(p)
    \/ Tick

SpecConc == InitConc /\ [][NextConc]_vars

(***************************************************************************)
(* One read per request, and every collaborator call read awaits           *)
(* eventually settles: it resolves or it rejects.                          *)
(***************************************************************************)
Settles(p) ==
    \/ UnsealRejects(p) \/ UnsealReturn(p)
    \/ FactoryRejects(p) \/ FactoryReturn(p)
    \/ RefreshRejects(p) \/ RefreshReturn(p)
    \/ SealRejects(p) \/ SealReturn(p)

NextRead ==
    \/ \E p \in Procs : ReadStart(p)
    \/ \E p \in Procs : UnsealRejects(p)
    \/ \E p \in Procs : UnsealReturn(p)
    \/ \E p \in Procs : FactoryRejects(p)
    \/ \E p \in Procs : FactoryReturn(p)
    \/ \E p \in Procs : RefreshRejects(p)
    \/ \E p \in Procs : RefreshReturn(p)
    \/ \E p \in Procs : SealRejects(p)
    \/ \E p \in Procs : SealReturn(p)
    \/ Tick

SpecLive ==
    /\ Init
    /\ [][NextRead]_vars
    /\ \A p \in Procs : WF_vars(Settles(p))

TypeOK ==
    /\ settings \in AllSettings
    /\ now \in ClockValues
    /\ \A p \in Procs :
        /\ pc[p] \in {"off", "idle", "read_unseal", "read_factory", "read_refresh", "save_seal", "done"}
        /\ calls[p] \in 0..MaxCalls
        /\ result[p].kind \in {"none", "absent", "session", "error"}

(***************************************************************************)
(* Vocabulary of the properties                                            *)
(***************************************************************************)
Done(p) == pc[p] = "done"

\* p is in a read / a save that was given both handles
Reading(p) == op[p] = "read" /\ req[p].ok /\ res[p].ok
Saving(p) == op[p] = "save" /\ req[p].ok /\ res[p].ok

\* the read of p reached the staleness test of line 54
Tested(p) == Reading(p) /\ checkedAt[p] # <<>>

\* no call to the identity provider, nothing sealed, the response untouched
NoProviderCall(p) ==
    Count(trace[p], "factory") = 0 /\ Count(trace[p], "refresh") = 0

ResponseUntouched(p) ==
    /\ Count(trace[p], "seal") = 0
    /\ Count(trace[p], "setCookie") = 0
    /\ res[p] = FreshResponse

AllFlags ==
    settings.storeIdToken /\ settings.storeAccessToken /\ settings.storeRefreshToken

AnyFlag ==
    settings.storeIdToken \/ settings.storeAccessToken \/ settings.storeRefreshToken

FlagOf(f) ==
    CASE f = "idToken" -> settings.storeIdToken
      [] f = "accessToken" -> settings.storeAccessToken
      [] f = "refreshToken" -> settings.storeRefreshToken

(***************************************************************************)
(* C1: a read whose unsealed session has expiresAt = now - 1 second and a  *)
(* refreshToken calls the provider factory exactly once; it never calls    *)
(* client.refresh more than once, and has called it exactly once as soon   *)
(* as the factory has handed out a client - under every setting of the     *)
(* store flags.                                                            *)
(***************************************************************************)
ExpiredOneSecondAgo(p) ==
    /\ Tested(p)
    /\ Has(unsealed[p].obj, "refreshToken")
    /\ Has(unsealed[p].obj, "expiresAt")
    /\ unsealed[p].obj.expiresAt = (checkedAt[p][1] \div 1000) - 1

Refreshed(p) ==
    /\ Reading(p)
    /\ Done(p)
    /\ Count(trace[p], "refresh") = 1
    /\ tokenSet[p] # NoTokenSet
    /\ result[p].kind = "session"

C2_Original ==
    \A p \in Procs :
        Refreshed(p) =>
            LET r == result[p].session
                ts == tokenSet[p]
            IN  /\ Has(r, "refreshToken")
                /\ r.refreshToken = unsealed[p].obj.refreshToken
                /\ r.user = ts.claims
                /\ Has(r, "accessToken") /\ r.accessToken = ts.access_token[1]
                /\ ts.id_token # <<>> => Has(r, "idToken") /\ r.idToken = ts.id_token[1]
                /\ ts.expires_at # <<>> => Has(r, "expiresAt") /\ r.expiresAt = ts.expires_at[1]

(***************************************************************************)
(* C2 amended: whenever read refreshes a stale session, the session it     *)
(* returns has a refreshToken exactly when storeRefreshToken is enabled,   *)
(* and then it is the refreshToken of the inbound cookie, never the one of *)
(* the token set; its user is the token set's, and its idToken,            *)
(* accessToken and expiresAt are the token set's wherever save's flags     *)
(* let the field through, and absent otherwise.                            *)
(***************************************************************************)
C2_KeepsOldRefreshToken ==
    \A p \in Procs :
        Refreshed(p) =>
            LET r == result[p].session
                ts == tokenSet[p]
            IN  /\ Has(r, "refreshToken") <=> settings.storeRefreshToken
                /\ Has(r, "refreshToken") => r.refreshToken = unsealed[p].obj.refreshToken
                /\ r.user = ts.claims
                /\ Has(r, "idToken") <=> (settings.storeIdToken /\ ts.id_token # <<>>)
                /\ Has(r, "idToken") => r.idToken = ts.id_token[1]
                /\ Has(r, "accessToken") <=> (settings.storeAccessToken /\ ts.access_token # <<>>)
                /\ Has(r, "accessToken") => r.accessToken = ts.access_token[1]
                /\ Has(r, "expiresAt") <=> (AnyFlag /\ ts.expires_at # <<>>)
                /\ Has(r, "expiresAt") => r.expiresAt = ts.expires_at[1]

C2_Witness ==
    \E p \in Procs :
        /\ Refreshed(p)
        /\ settings.storeRefreshToken
        /\ settings.storeAccessToken
        /\ tokenSet[p].refresh_token = <<"rt2">>
        /\ unsealed[p].obj.refreshToken = "rt1"
        /\ result[p].session.refreshToken = "rt1"
        /\ result[p].session.accessToken = "at2"

(***************************************************************************)
(* C3: a read that reaches the staleness test calls the provider factory   *)
(* if and only if the unsealed record has both refreshToken and expiresAt  *)
(* and expiresAt * 1000 - 60000 < now, strictly; a read that does not      *)
(* reach the test calls nothing.  So expiresAt = now + 30 s is refreshed,  *)
(* now + 90 s is not, and expiresAt * 1000 - 60000 = now is not.           *)
(***************************************************************************)
C3_RefreshIffStale ==
    \A p \in Procs :
        /\ Tested(p) =>
             LET o == unsealed[p].obj
                 t == checkedAt[p][1]
             IN  (Count(trace[p], "factory") >= 1)
                    <=> /\ Has(o, "refreshToken")
                        /\ Has(o, "expiresAt")
                        /\ o.expiresAt * 1000 - 60000 < t
        /\ (Reading(p) /\ ~Tested(p)) => NoProviderCall(p)

\* the boundary: expiresAt * 1000 - 60000 = now, returned without a refresh
C3_Witness ==
    \E p \in Procs :
        /\ Tested(p)
        /\ Done(p)
        /\ Has(unsealed[p].obj, "refreshToken")
        /\ Has(unsealed[p].obj, "expiresAt")
        /\ unsealed[p].obj.expiresAt * 1000 - 60000 = checkedAt[p][1]
        /\ NoProviderCall(p)
        /\ result[p] = Returned(unsealed[p].obj)

\* expiresAt = now + 30 s is refreshed
C3_InsideSkewRefreshed ==
    \E p \in Procs :
        /\ Tested(p)
        /\ Has(unsealed[p].obj, "expiresAt")
        /\ unsealed[p].obj.expiresAt * 1000 = checkedAt[p][1] + 30000
        /\ Count(trace[p], "refresh") = 1

\* expiresAt = now + 90 s is not
C3_OutsideSkewKept ==
    \E p \in Procs :
        /\ Tested(p)
        /\ Done(p)
        /\ Has(unsealed[p].obj, "refreshToken")
        /\ Has(unsealed[p].obj, "expiresAt")
        /\ unsealed[p].obj.expiresAt * 1000 = checkedAt[p][1] + 90000
        /\ NoProviderCall(p)

(***************************************************************************)
(* C4 as stated: with all three flags enabled and no time elapsed, save of *)
(* any live session S followed by read of the cookie save wrote calls no   *)
(* provider and returns the record save persisted.                         *)
(***************************************************************************)
\* p saved a session, and now reads the cookie that save wrote
SaveThenRead(p) ==
    /\ prev[p].op = "save"
    /\ prev[p].result.kind = "session"
    /\ Reading(p)
    /\ req[p].cookie = Seal(prev[p].result.session, CookieSecret)

NoTimeElapsed == now = StartMs

C4_Original ==
    \A p \in Procs :
        (AllFlags /\ NoTimeElapsed /\ SaveThenRead(p)) =>
            /\ NoProviderCall(p)
            /\ Done(p) => result[p] = Returned(prev[p].result.session)

(***************************************************************************)
(* C4 amended: with all three flags enabled and no time elapsed, save of a *)
(* live session S that is not stale (S has no truthy refreshToken, or no   *)
(* truthy expiresAt, or expiresAt * 1000 - 60000 >= now) followed by read  *)
(* of the cookie save wrote calls no provider, leaves the response alone,  *)
(* and returns the record save persisted: S's user and createdAt, and each *)
(* of idToken, accessToken, refreshToken, expiresAt that is truthy in S.   *)
(***************************************************************************)
StaleInput(S, t) ==
    /\ Has(S, "refreshToken") /\ S.refreshToken # ""
    /\ Has(S, "expiresAt") /\ S.expiresAt # 0
    /\ S.expiresAt * 1000 - 60000 < t

C4_SaveReadRoundTrip ==
    \A p \in Procs :
        (AllFlags /\ NoTimeElapsed /\ SaveThenRead(p) /\ ~StaleInput(prev[p].input, now)) =>
            /\ NoProviderCall(p)
            /\ ResponseUntouched(p)
            /\ Done(p) =>
                 LET S == prev[p].input
                     r == result[p].session
                 IN  /\ result[p].kind = "session"
                     /\ r = prev[p].result.session
                     /\ r.user = S.user /\ r.createdAt = S.createdAt
                     /\ \A f \in StrFields :
                          /\ Has(r, f) <=> (Has(S, f) /\ S[f] # "")
                          /\ Has(r, f) => r[f] = S[f]
                     /\ Has(r, "expiresAt") <=> (Has(S, "expiresAt") /\ S.expiresAt # 0)
                     /\ Has(r, "expiresAt") => r.expiresAt = S.expiresAt

\* a session with every field set, expiring in 90 s, comes back whole
C4_Witness ==
    \E p \in Procs :
        /\ AllFlags /\ NoTimeElapsed /\ SaveThenRead(p) /\ Done(p)
        /\ prev[p].input = [user |-> "u1", createdAt |-> 1, idToken |-> "id1",
                            accessToken |-> "at1", refreshToken |-> "rt1",
                            expiresAt |-> StartSec + 90]
        /\ result[p] = Returned(prev[p].input)

(***************************************************************************)
(* C5: under every combination of the flags, the record a successful save  *)
(* returns, and the record the cookie it wrote unseals to, carry the       *)
(* input's user and createdAt, carry each of idToken / accessToken /       *)
(* refreshToken if and only if that token's flag is enabled and the input  *)
(* value is truthy, with the input's value, and have no field the input    *)
(* lacks.                                                                  *)
(***************************************************************************)
\* save ran to completion in p, called directly or from a refreshing read
Saved(p) ==
    /\ Done(p)
    /\ Count(trace[p], "setCookie") = 1
    /\ result[p].kind = "session"

\* what the cookie on the response of p unseals to
WrittenRecord(p) == Unseal(res[p].cookies[Len(res[p].cookies)].value).obj

Filtered(r, S) ==
    /\ Has(r, "user") /\ r.user = S.user
    /\ Has(r, "createdAt") /\ r.createdAt = S.createdAt
    /\ \A f \in StrFields :
         /\ Has(r, f) <=> (FlagOf(f) /\ Has(S, f) /\ S[f] # "")
         /\ Has(r, f) => r[f] = S[f]
    /\ (DOMAIN r) \subseteq (DOMAIN S)
    /\ Has(r, "expiresAt") => r.expiresAt = S.expiresAt

C5_FieldsFollowFlags ==
    \A p \in Procs :
        Saved(p) =>
            /\ Filtered(result[p].session, input[p])
            /\ Len(res[p].cookies) = 1
            /\ UnsealOk(res[p].cookies[1].value, CookieSecret)
            /\ Filtered(WrittenRecord(p), input[p])

\* accessToken set, storeAccessToken off: it is neither returned nor sealed
C5_Witness ==
    \E p \in Procs :
        /\ Saved(p) /\ Saving(p)
        /\ ~settings.storeAccessToken /\ settings.storeIdToken
        /\ Has(input[p], "accessToken") /\ input[p].accessToken = "at1"
        /\ Has(input[p], "idToken") /\ input[p].idToken = "id1"
        /\ ~Has(result[p].session, "accessToken")
        /\ ~Has(WrittenRecord(p), "accessToken")
        /\ Has(WrittenRecord(p), "idToken")

(***************************************************************************)
(* C6: save copies expiresAt into the persisted session if and only if at  *)
(* least one of the three flags is enabled and the input has an expiresAt, *)
(* whatever its value (0 included) and whether or not the token whose flag *)
(* is enabled is itself in the input.                                      *)
(***************************************************************************)
C6_ExpiresAtIffFlagAndPresent ==
    \A p \in Procs :
        Saved(p) =>
            /\ Has(result[p].session, "expiresAt") <=> (AnyFlag /\ Has(input[p], "expiresAt"))
            /\ Has(result[p].session, "expiresAt") =>
                   result[p].session.expiresAt = input[p].expiresAt

\* what the code does: the same, for every expiresAt other than 0
C6_ExpiresAtIffFlagAndTruthy ==
    \A p \in Procs :
        Saved(p) =>
            /\ Has(result[p].session, "expiresAt")
                  <=> (AnyFlag /\ Has(input[p], "expiresAt") /\ input[p].expiresAt # 0)
            /\ Has(result[p].session, "expiresAt") =>
                   result[p].session.expiresAt = input[p].expiresAt

(***************************************************************************)
(* C7: a read whose request has no cookie named cookieName, or an empty    *)
(* one, or one that unseals to null, returns absent (not an error), calls  *)
(* neither the provider factory nor client.refresh, and writes no cookie.  *)
(***************************************************************************)
NoCookieGiven(p) == req[p].cookie.kind \in {"none", "empty"}

SealedNullGiven(p) ==
    /\ req[p].cookie.kind = "sealed"
    /\ req[p].cookie.mac = <<CookieSecret, req[p].cookie.body>>
    /\ req[p].cookie.body.isNull

C7_NoSessionIsAbsent ==
    \A p \in Procs :
        (Reading(p) /\ (NoCookieGiven(p) \/ SealedNullGiven(p))) =>
            /\ NoProviderCall(p)
            /\ ResponseUntouched(p)
            /\ Done(p) => result[p] = Absent
            /\ NoCookieGiven(p) => (Done(p) /\ Count(trace[p], "unseal") = 0)

C7_Witness ==
    \E p \in Procs :
        /\ Reading(p) /\ Done(p)
        /\ req[p].cookie.kind = "empty"
        /\ result[p] = Absent

C7_WitnessNull ==
    \E p \in Procs :
        /\ Reading(p) /\ Done(p)
        /\ SealedNullGiven(p)
        /\ result[p] = Absent

(***************************************************************************)
(* C8: when the cookie value does not unseal (malformed, tampered, sealed  *)
(* under another secret), read fails with the codec's error - it returns   *)
(* neither absent nor a session - calls no provider and writes no cookie.  *)
(***************************************************************************)
BadCookieGiven(p) ==
    \/ req[p].cookie.kind = "garbage"
    \/ /\ req[p].cookie.kind = "sealed"
       /\ req[p].cookie.mac # <<CookieSecret, req[p].cookie.body>>

C8_IntegrityFailurePropagates ==
    \A p \in Procs :
        (Reading(p) /\ BadCookieGiven(p)) =>
            /\ NoProviderCall(p)
            /\ ResponseUntouched(p)
            /\ Done(p) => result[p] = Thrown("unseal_error")

\* a tampered cookie
C8_Witness ==
    \E p \in Procs :
        /\ Reading(p) /\ Done(p)
        /\ req[p].cookie = Tamper(Seal(Session("u1", 1), CookieSecret))
        /\ result[p] = Thrown("unseal_error")

(***************************************************************************)
(* C9: when the provider factory or client.refresh rejects during a stale  *)
(* read, the read is over and has failed with that error: no second call   *)
(* to the factory or to refresh, no session returned, nothing sealed, no   *)
(* cookie written.                                                         *)
(***************************************************************************)
ProviderRejected(p, who) == Count(trace[p], who \o ":rejected") = 1

C9_RefreshFailurePropagates ==
    \A p \in Procs :
        /\ ProviderRejected(p, "factory") =>
             /\ Done(p)
             /\ result[p] = Thrown("factory_error")
             /\ Count(trace[p], "factory") = 1
             /\ Count(trace[p], "refresh") = 0
             /\ ResponseUntouched(p)
        /\ ProviderRejected(p, "refresh") =>
             /\ Done(p)
             /\ result[p] = Thrown("refresh_error")
             /\ Count(trace[p], "factory") = 1
             /\ Count(trace[p], "refresh") = 1
             /\ ResponseUntouched(p)

C9_Witness ==
    \E p \in Procs :
        /\ ProviderRejected(p, "refresh")
        /\ Done(p)
        /\ result[p] = Thrown("refresh_error")

(***************************************************************************)
(* C10: read and save called without a request or without a response fail  *)
(* at once: the invocation is over with an error, and it has parsed no     *)
(* cookie, unsealed nothing, called no provider, sealed nothing and        *)
(* written no cookie.                                                      *)
(***************************************************************************)
C10_MissingHandleIsFatal ==
    \A p \in Procs :
        (op[p] \in {"read", "save"} /\ (~req[p].ok \/ ~res[p].ok)) =>
            /\ Done(p)
            /\ trace[p] = <<>>
            /\ res[p].cookies = <<>>
            /\ result[p] = IF ~res[p].ok THEN Thrown("Response is not available")
                           ELSE Thrown("Request is not available")

\* save without a request
C10_Witness ==
    \E p \in Procs :
        /\ op[p] = "save" /\ ~req[p].ok /\ res[p].ok
        /\ Done(p)
        /\ result[p] = Thrown("Request is not available")

\* read without a response
C10_WitnessRead ==
    \E p \in Procs :
        /\ op[p] = "read" /\ ~res[p].ok
        /\ Done(p)
        /\ result[p] = Thrown("Response is not available")

(***************************************************************************)
(* C11: a successful save leaves exactly one cookie on the response; it is *)
(* named cookieName and has path = cookiePath, maxAge = cookieLifetime,    *)
(* domain = cookieDomain, sameSite = cookieSameSite; its value unseals     *)
(* under cookieSecret to exactly the record save returns; and that record  *)
(* is the filtered one: it differs from the input whenever the input has a *)
(* token that is empty or whose flag is off.                               *)
(***************************************************************************)
\* the input of p has a token that save does not persist
HasDroppedToken(p) ==
    \E f \in StrFields : Has(input[p], f) /\ (~FlagOf(f) \/ input[p][f] = "")

C11_OneCookieOfReturnedRecord ==
    \A p \in Procs :
        Saved(p) =>
            /\ Len(res[p].cookies) = 1
            /\ LET c == res[p].cookies[1] IN
                 /\ c.name = "a0:session"
                 /\ c.path = "/"
                 /\ c.maxAge = "8h"
                 /\ c.domain = "example.com"
                 /\ c.sameSite = "lax"
                 /\ c.value.kind = "sealed"
                 /\ c.value.mac = <<CookieSecret, c.value.body>>
                 /\ ~c.value.body.isNull
                 /\ Decode(c.value.body.props) = result[p].session
            /\ HasDroppedToken(p) => result[p].session # input[p]

\* a direct save whose return differs from its input
C11_Witness ==
    \E p \in Procs :
        /\ Saved(p) /\ Saving(p)
        /\ HasDroppedToken(p)
        /\ Len(res[p].cookies) = 1
        /\ res[p].cookies[1].name = CookieName
        /\ WrittenRecord(p) = result[p].session
        /\ result[p].session # input[p]

(***************************************************************************)
(* C12: two concurrent reads bearing the same stale cookie each make their *)
(* own refresh call (no coalescing).  The invocations share no mutable     *)
(* state: a step of one leaves everything of the other as it was, and the  *)
(* result and the response cookie of a finished read are those its own     *)
(* cookie, its own clock readings and the answers to its own collaborator  *)
(* calls determine - what it yields when it runs alone - whatever the      *)
(* other invocation did in between.                                        *)
(***************************************************************************)
\* everything that belongs to the invocation of p
Own(p) ==
    <<jar[p], calls[p], prev[p], pc[p], op[p], req[p], res[p], input[p], unsealed[p],
      checkedAt[p], tokenSet[p], persisted[p], result[p], trace[p]>>

\* a step of p leaves every other invocation alone
Isolated ==
    \A p \in Procs :
        pc'[p] # pc[p] => \A q \in Procs \ {p} : Own(q)' = Own(q)

\* the outcome of a finished read of a sealed record, from what p itself saw
AloneResult(p) ==
    LET o == Decode(req[p].cookie.body.props)
        fresh == PersistedSession(
                     RefreshedSession(tokenSet[p], o.refreshToken, input[p].createdAt),
                     settings)
    IN  IF ~NeedsRefresh(o, checkedAt[p][1]) THEN Returned(o)
        ELSE IF Count(trace[p], "factory:rejected") = 1 THEN Thrown("factory_error")
        ELSE IF Count(trace[p], "refresh:rejected") = 1 THEN Thrown("refresh_error")
        ELSE IF Count(trace[p], "seal:rejected") = 1 THEN Thrown("seal_error")
        ELSE Returned(fresh)

AloneResponse(p) ==
    IF AloneResult(p).kind = "session" /\ Count(trace[p], "factory") = 1
    THEN [ok |-> TRUE,
          cookies |-> <<SessionCookie(Seal(AloneResult(p).session, CookieSecret))>>]
    ELSE FreshResponse

OwnOutcome ==
    \A p \in Procs :
        (Reading(p) /\ Done(p)) =>
            /\ result[p] = AloneResult(p)
            /\ res[p] = AloneResponse(p)

C12_ConcurrentReadsIndependent == []OwnOutcome /\ [][Isolated]_vars

\* both reads of the one cookie have called client.refresh, and finished
\* with different sessions
C12_Witness ==
    \E p \in Procs, q \in Procs :
        /\ p # q
        /\ req[p].cookie = req[q].cookie
        /\ Refreshed(p) /\ Refreshed(q)
        /\ Count(trace[p], "refresh") = 1 /\ Count(trace[q], "refresh") = 1
        /\ result[p] # result[q]

(***************************************************************************)
(* C13: one read seals at most once and writes at most one response        *)
(* cookie, and only after a refresh that succeeded; a read whose unsealed  *)
(* session is not stale returns the unsealed record as it is - fields the  *)
(* flags would drop included - calls no provider and leaves the response   *)
(* as it was.                                                              *)
(***************************************************************************)
\* the record in the request cookie of p
CookieRecord(p) == Decode(req[p].cookie.body.props)

C13_ReserializedAtMostOnce ==
    \A p \in Procs :
        Reading(p) =>
            /\ Count(trace[p], "seal") <= 1
            /\ Count(trace[p], "setCookie") <= 1
            /\ Len(res[p].cookies) <= 1
            /\ Count(trace[p], "seal") = 1 =>
                 /\ Count(trace[p], "refresh") = 1
                 /\ Count(trace[p], "refresh:rejected") = 0
                 /\ tokenSet[p] # NoTokenSet
            /\ (Tested(p) /\ ~StaleInput(CookieRecord(p), checkedAt[p][1])) =>
                 /\ Done(p)
                 /\ result[p] = Returned(CookieRecord(p))
                 /\ NoProviderCall(p)
                 /\ ResponseUntouched(p)

\* a fresh session comes back with the accessToken that storeAccessToken =
\* false would drop
C13_Witness ==
    \E p \in Procs :
        /\ Tested(p) /\ Done(p)
        /\ ~settings.storeAccessToken
        /\ Has(CookieRecord(p), "accessToken")
        /\ result[p].kind = "session"
        /\ Has(result[p].session, "accessToken")
        /\ ResponseUntouched(p)

(***************************************************************************)
(* C14: an unsealed session whose expiresAt is in the past but which has   *)
(* no refreshToken, or which has a refreshToken but no expiresAt, is       *)
(* returned unchanged as the session: not absent, not an error, no         *)
(* provider call, no cookie written.                                       *)
(***************************************************************************)
ExpiredWithoutRefreshToken(p) ==
    /\ Tested(p)
    /\ ~Has(CookieRecord(p), "refreshToken")
    /\ Has(CookieRecord(p), "expiresAt")
    /\ CookieRecord(p).expiresAt * 1000 < checkedAt[p][1]

RefreshTokenWithoutExpiry(p) ==
    /\ Tested(p)
    /\ Has(CookieRecord(p), "refreshToken")
    /\ ~Has(CookieRecord(p), "expiresAt")

C14_UnrefreshableReturnedAsIs ==
    \A p \in Procs :
        (ExpiredWithoutRefreshToken(p) \/ RefreshTokenWithoutExpiry(p)) =>
            /\ Done(p)
            /\ result[p] = Returned(CookieRecord(p))
            /\ NoProviderCall(p)
            /\ ResponseUntouched(p)

C14_Witness ==
    \E p \in Procs :
        /\ ExpiredWithoutRefreshToken(p)
        /\ Done(p)
        /\ result[p].kind = "session"
        /\ result[p].session.expiresAt = StartSec - 1

C14_WitnessNoExpiry ==
    \E p \in Procs :
        /\ RefreshTokenWithoutExpiry(p)
        /\ Done(p)
        /\ result[p].kind = "session"
        /\ result[p].session.refreshToken = "rt1"

(***************************************************************************)
(* C15: in a refreshing read the collaborators are called in the order     *)
(* parseCookies, unseal, provider factory, client.refresh, seal,           *)
(* setCookie; the session read then returns is the flag-filtered record    *)
(* save persisted, equal to what the cookie just written unseals to.       *)
(***************************************************************************)
RefreshingOrder ==
    <<"parseCookies", "unseal", "factory", "refresh", "seal", "setCookie">>

\* the calls of a trace, without the rejections
CallsOf(tr) == SelectSeq(tr, LAMBDA e : \E i \in 1..Len(RefreshingOrder) : RefreshingOrder[i] = e)

IsPrefix(a, b) == Len(a) <= Len(b) /\ a = SubSeq(b, 1, Len(a))

C15_RefreshingReadOrder ==
    \A p \in Procs :
        /\ (Reading(p) /\ Count(trace[p], "factory") >= 1) =>
               IsPrefix(CallsOf(trace[p]), RefreshingOrder)
        /\ Refreshed(p) =>
               /\ trace[p] = RefreshingOrder
               /\ result[p].session = WrittenRecord(p)
               /\ Filtered(result[p].session, input[p])

\* the refreshed session had a token the flags drop: it is not returned
C15_Witness ==
    \E p \in Procs :
        /\ Refreshed(p)
        /\ trace[p] = RefreshingOrder
        /\ HasDroppedToken(p)
        /\ result[p].session # input[p]
        /\ result[p].session = WrittenRecord(p)

(***************************************************************************)
(* C16: when Iron.seal rejects inside save, called directly or from a      *)
(* refreshing read, the caller gets that failure and the response is       *)
(* exactly as it was before the call: no cookie written.                   *)
(***************************************************************************)
SealRejected(p) == Count(trace[p], "seal:rejected") = 1

C16_SealFailureWritesNothing ==
    \A p \in Procs :
        SealRejected(p) =>
            /\ Done(p)
            /\ result[p] = Thrown("seal_error")
            /\ Count(trace[p], "setCookie") = 0
            /\ res[p] = FreshResponse

\* from a refreshing read
C16_Witness ==
    \E p \in Procs :
        /\ SealRejected(p)
        /\ op[p] = "read"
        /\ Count(trace[p], "refresh") = 1
        /\ result[p] = Thrown("seal_error")

\* from a direct save
C16_WitnessSave ==
    \E p \in Procs :
        /\ SealRejected(p)
        /\ op[p] = "save"
        /\ result[p] = Thrown("seal_error")

(***************************************************************************)
(* C17: with storeRefreshToken disabled no cookie this store writes holds  *)
(* a refreshToken, so a read of a cookie this store set under that         *)
(* configuration, after any sequence of saves and reads, calls neither the *)
(* provider factory nor client.refresh, even when the persisted expiresAt  *)
(* is in the past.                                                         *)
(***************************************************************************)
C17_NoRefreshWithoutStoredToken ==
    ~settings.storeRefreshToken =>
        \A p \in Procs :
            /\ \A i \in 1..Len(res[p].cookies) :
                 ~Has(Decode(res[p].cookies[i].value.body.props), "refreshToken")
            /\ (prev[p].wrote /\ Reading(p)) =>
                 /\ ~Has(CookieRecord(p), "refreshToken")
                 /\ NoProviderCall(p)

\* a session saved with a refresh token and an expiry in the past is read
\* back expired, and not refreshed
C17_Witness ==
    \E p \in Procs :
        /\ ~settings.storeRefreshToken
        /\ prev[p].wrote /\ prev[p].op = "save"
        /\ Has(prev[p].input, "refreshToken") /\ prev[p].input.refreshToken = "rt1"
        /\ Reading(p) /\ Done(p)
        /\ result[p].kind = "session"
        /\ Has(result[p].session, "expiresAt")
        /\ result[p].session.expiresAt * 1000 < now
        /\ NoProviderCall(p)

(***************************************************************************)
(* C18: under a fixed configuration the filter of save is idempotent:      *)
(* saving the record save(S) returned returns an equal record, and the two *)
(* cookies unseal to the same record.                                      *)
(***************************************************************************)
\* p saved S, and now has saved what that save returned
SavedTwice(p) ==
    /\ prev[p].op = "save"
    /\ prev[p].result.kind = "session"
    /\ Saving(p) /\ Saved(p)
    /\ input[p] = prev[p].result.session
    /\ req[p].cookie.kind = "sealed"

C18_SaveIdempotent ==
    \A p \in Procs :
        SavedTwice(p) =>
            /\ result[p].session = prev[p].result.session
            /\ WrittenRecord(p) = CookieRecord(p)
            /\ res[p].cookies[1].value = req[p].cookie

\* of a session that the first save did change
C18_Witness ==
    \E p \in Procs :
        /\ SavedTwice(p)
        /\ prev[p].input # prev[p].result.session
        /\ Has(prev[p].result.session, "refreshToken")
        /\ result[p].session = prev[p].result.session

(***************************************************************************)
(* C19: provided every collaborator call settles, every read that was      *)
(* started comes to an end, with exactly one of three outcomes - absent, a *)
(* session, an error - and at no time has it made more than one factory    *)
(* call, one refresh call, or one cookie write.                            *)
(***************************************************************************)
OneOutcome(p) ==
    \/ result[p] = Absent
    \/ result[p].kind = "session" /\ result[p] = Returned(result[p].session)
    \/ result[p].kind = "error" /\ result[p].error # "" /\ result[p] = Thrown(result[p].error)

BoundedEffort(p) ==
    /\ Count(trace[p], "factory") <= 1
    /\ Count(trace[p], "refresh") <= 1
    /\ Count(trace[p], "setCookie") <= 1
    /\ Len(res[p].cookies) <= 1

C19_ReadTerminates ==
    /\ \A p \in Procs : (op[p] = "read") ~> (Done(p) /\ OneOutcome(p))
    /\ [](\A p \in Procs :
            op[p] = "read" =>
                /\ BoundedEffort(p)
                /\ Done(p) => OneOutcome(p)
                /\ ~Done(p) => result[p] = NoResult)

\* a read that went through every suspension point and ended with a session
C19_Witness ==
    \E p \in Procs :
        /\ op[p] = "read" /\ Done(p)
        /\ trace[p] = RefreshingOrder
        /\ OneOutcome(p) /\ result[p].kind = "session"
        /\ BoundedEffort(p)

====
